---- MODULE Spec2Model ----
\* Model of peewee_sanic_rest: the filter compiler of filters.py (a raw value or
\* a raw parameter mapping turned into transformations of a queryable) and the
\* page/limit parsing of core.py.  Every call is a pure function of its inputs,
\* so the operations are operators and each specification draws the inputs of
\* one entry point in Init and applies it in one action.
EXTENDS Integers, Sequences, FiniteSets, TLC

VARIABLES flt, raw, ctx, q0, out, req, pc

vars == <<flt, raw, ctx, q0, out, req, pc>>

\* ---------------------------------------------------------------- bounds
\* longest raw string fed to a leaf filter
MaxLen == 3
\* longest digit string of a page / limit parameter
MaxDigits == 3
\* most values listed under one name of a raw parameter mapping
MaxArgs == 2
\* most atoms of a pattern
MaxPat == 2
\* longest raw string fed to a list filter
MaxCsvLen == 4
\* most alternatives of a choice filter
MaxAlts == 2

\* ---------------------------------------------------------------- strings
\* A Python str is a sequence of one-character strings.
Digits == {"0", "1", "2", "3", "4", "5", "6", "7", "8", "9"}
Letters == {"a", "b", "c", "e", "i", "t", "v"}

StringsOver(A, n) == UNION {[1..k -> A] : k \in 0..n}

IsDigit(c) == c \in Digits

DigitVal(c) ==
    CASE c = "0" -> 0 [] c = "1" -> 1 [] c = "2" -> 2 [] c = "3" -> 3
      [] c = "4" -> 4 [] c = "5" -> 5 [] c = "6" -> 6 [] c = "7" -> 7
      [] c = "8" -> 8 [] c = "9" -> 9

\* ---------------------------------------------------------------- values
\* Python values that flow through the filters, as one record shape:
\* t = "none" | "str" | "int" | "list" | "dict" | "match".
NoneV == [t |-> "none", n |-> 0, s |-> <<>>, l |-> <<>>, d |-> <<>>, g |-> <<>>]
StrV(s) == [NoneV EXCEPT !.t = "str", !.s = s]
IntV(n) == [NoneV EXCEPT !.t = "int", !.n = n]
ListV(l) == [NoneV EXCEPT !.t = "list", !.l = l]
\* a dict is its items in insertion order: <<[k, islist, items]>>; a scalar
\* entry v is islist = FALSE with items = <<v>>
DictV(d) == [NoneV EXCEPT !.t = "dict", !.d = d]
\* a match object: the matched text group(0) and the groups in pattern order,
\* each [named, name, text]
MatchV(s, g) == [NoneV EXCEPT !.t = "match", !.s = s, !.g = g]

\* ---------------------------------------------------------------- int(), str()
IntBody(s) == IF Len(s) > 0 /\ s[1] = "-" THEN Tail(s) ELSE s

IntParsable(s) == Len(IntBody(s)) > 0 /\ \A i \in 1..Len(IntBody(s)) : IsDigit(IntBody(s)[i])

RECURSIVE DigitsVal(_)
DigitsVal(s) ==
    IF Len(s) = 0 THEN 0
    ELSE 10 * DigitsVal(SubSeq(s, 1, Len(s) - 1)) + DigitVal(s[Len(s)])

\* int(v): [ok, n, exc].  A str over the characters used here parses as an
\* optional minus sign and decimal digits (ValueError otherwise), an int is
\* itself, anything else is a TypeError.
PyInt(v) ==
    CASE v.t = "int" -> [ok |-> TRUE, n |-> v.n, exc |-> ""]
      [] v.t = "str" ->
            IF IntParsable(v.s)
            THEN [ok |-> TRUE,
                  n |-> IF v.s[1] = "-" THEN 0 - DigitsVal(IntBody(v.s)) ELSE DigitsVal(v.s),
                  exc |-> ""]
            ELSE [ok |-> FALSE, n |-> 0, exc |-> "ValueError"]
      [] OTHER -> [ok |-> FALSE, n |-> 0, exc |-> "TypeError"]

\* str(v) never fails; str(None) is the text "None".  Only str and None reach it.
PyStr(v) ==
    IF v.t = "str" THEN v.s ELSE <<"N", "o", "n", "e">>

Min(a, b) == IF a <= b THEN a ELSE b

\* ---------------------------------------------------------------- core.py
PAGE_ITEMS_LIMIT_DEFAULT == 20
PAGE_ITEMS_LIMIT_MAX == 100

\* request.args.get(name, default): a request is [has_page, page, has_limit, limit]
ArgsGet(r, name, default) ==
    IF name = "page" THEN (IF r.has_page THEN r.page ELSE default)
    ELSE (IF r.has_limit THEN r.limit ELSE default)

\* get_page_and_limit without the cut to the maximum
get_page_and_limit_uncut(r) ==
    LET page == PyInt(ArgsGet(r, "page", IntV(1)))
        limit == PyInt(ArgsGet(r, "limit", IntV(PAGE_ITEMS_LIMIT_DEFAULT)))
    IN  IF ~page.ok \/ ~limit.ok
        THEN [k |-> "InvalidUsage", page |-> 0, limit |-> 0]
        ELSE [k |-> "ok", page |-> page.n, limit |-> limit.n]

\* ListModelMixin.get_page_and_limit: [k, page, limit], k = "ok" | "InvalidUsage"
get_page_and_limit(r) ==
    LET page == PyInt(ArgsGet(r, "page", IntV(1)))
        limit == PyInt(ArgsGet(r, "limit", IntV(PAGE_ITEMS_LIMIT_DEFAULT)))
        Caught == {"KeyError", "TypeError", "ValueError"}
        Raise(e) == [k |-> IF e \in Caught THEN "InvalidUsage" ELSE e,
                     page |-> 0, limit |-> 0]
    IN  IF ~page.ok THEN Raise(page.exc)
        ELSE IF ~limit.ok THEN Raise(limit.exc)
        ELSE [k |-> "ok", page |-> page.n, limit |-> Min(limit.n, PAGE_ITEMS_LIMIT_MAX)]

\* ---------------------------------------------------------------- queryable
\* A peewee.Query is the sequence of transformations applied to it so far:
\* [op, cond, h, pos, kw] with op = "where" (qs.where(cond)) or "call" (a
\* handler h of the context called with positional values pos and keywords kw).
Where(qs, cond) ==
    Append(qs, [op |-> "where", cond |-> cond, h |-> "", pos |-> <<>>, kw |-> {}])
Called(qs, h, pos, kw) ==
    Append(qs, [op |-> "call", cond |-> "", h |-> h, pos |-> pos, kw |-> kw])

\* ---------------------------------------------------------------- outcomes
\* What a call ends in: k = "ok" (qs returned; isq tells whether it is a
\* peewee.Query), "invalid" (FilterInvalidArgumentException) or "fatal" (any
\* other exception).  err is the exception chain, outermost first, each
\* [kind, name, val]; trace lists the member invocations a Filter Set made.
Ok(qs, isq, trace) == [k |-> "ok", qs |-> qs, isq |-> isq, err |-> <<>>, trace |-> trace]
Invalid(err, trace) == [k |-> "invalid", qs |-> <<>>, isq |-> FALSE, err |-> err, trace |-> trace]
Fatal(err, trace) == [k |-> "fatal", qs |-> <<>>, isq |-> FALSE, err |-> err, trace |-> trace]
Exc(kind, name, val) == <<[kind |-> kind, name |-> name, val |-> val]>>

\* a coercion result: [k, v, err]
Prepared(v) == [k |-> "ok", v |-> v, err |-> <<>>]
PrepInvalid(err) == [k |-> "invalid", v |-> NoneV, err |-> err]
PrepFatal(err) == [k |-> "fatal", v |-> NoneV, err |-> err]

\* ---------------------------------------------------------------- filters
\* A filter object, one record shape for every class:
\*   cls            "Method" | "Type" | "Regex" | "CSV" | "Choice" | "Set"
\*   ignore_failure Filter.ignore_failure
\*   method         [t, name]: t = "none" (None), "str" (a handler name) or
\*                  "other" (a truthy object that is no str)
\*   condition      "" for None, else the name of a peewee expression
\*   type           TypeFilter.type: "int" | "str"
\*   regex          the pattern: a sequence of atoms [cls, cap, name], each one
\*                  character of class cls ("digit" | "alpha"), cap = "none",
\*                  "unnamed" ( (..) ) or "named" ( (?P<name>..) )
\*   inner          <<>> or <<f>>: CSVFilter's inner_filter argument
\*   filters        ChoiceFilter.filters
\*   id, attrs      a Filter Set: its name and its class attributes in
\*                  declaration order, each [name, isfilter, f, kind]
NoMethod == [t |-> "none", name |-> ""]
BaseFilter ==
    [cls |-> "Method", ignore_failure |-> FALSE, method |-> NoMethod, condition |-> "",
     type |-> "", regex |-> <<>>, inner |-> <<>>, filters |-> <<>>, id |-> "", attrs |-> <<>>]

\* MethodFilter.__init__
MethodFilter(method, condition, ign) ==
    [BaseFilter EXCEPT !.method = method, !.condition = condition, !.ignore_failure = ign]
\* IntegerFilter / StringFilter: TypeFilter with type = int / str
TypeFilter(type, method, condition, ign) ==
    [MethodFilter(method, condition, ign) EXCEPT !.cls = "Type", !.type = type]
\* RegexFilter.__init__
RegexFilter(regex, method, condition, ign) ==
    [MethodFilter(method, condition, ign) EXCEPT !.cls = "Regex", !.regex = regex]
\* CSVFilter.__init__: inner_filter or StringFilter()
CSVFilter(inner, method, condition, ign) ==
    [MethodFilter(method, condition, ign) EXCEPT
        !.cls = "CSV",
        !.inner = IF inner = <<>> THEN <<TypeFilter("str", NoMethod, "", FALSE)>> ELSE inner]
\* ChoiceFilter.__init__
ChoiceFilter(filters, ign) ==
    [BaseFilter EXCEPT !.cls = "Choice", !.filters = filters, !.ignore_failure = ign]

\* a class attribute of a Filter Set: a filter member, or anything else of
\* kind "method" (callable, returns a query), "badret" (callable, returns no
\* query), "noncallable" (truthy, not callable) or "falsy"
FilterAttr(name, f) == [name |-> name, isfilter |-> TRUE, f |-> f, kind |-> "noncallable"]
OtherAttr(name, kind) == [name |-> name, isfilter |-> FALSE, f |-> BaseFilter, kind |-> kind]

\* dir(self) lists the attribute names sorted; the names the model uses, sorted
SortedNames == <<"_hidden", "a", "by_val", "id", "inner", "plain", "status">>
NameRank(name) == CHOOSE i \in 1..Len(SortedNames) : SortedNames[i] = name

IsPrivate(name) == name = "_hidden"

RECURSIVE SortAttrs(_)
SortAttrs(attrs) ==
    IF attrs = <<>> THEN <<>>
    ELSE LET i == CHOOSE i \in 1..Len(attrs) :
                    \A j \in 1..Len(attrs) : NameRank(attrs[i].name) <= NameRank(attrs[j].name)
         IN  <<attrs[i]>> \o SortAttrs(SubSeq(attrs, 1, i - 1) \o SubSeq(attrs, i + 1, Len(attrs)))

\* the discovery keeping the order of declaration
find_filters_as_declared(attrs) ==
    SelectSeq(attrs, LAMBDA a : ~IsPrivate(a.name) /\ a.isfilter)

\* FilterSet._find_filters: the public attributes that are Filter instances, in
\* dir() order
find_filters(attrs) ==
    SelectSeq(SortAttrs(attrs), LAMBDA a : ~IsPrivate(a.name) /\ a.isfilter)

\* FilterSet.__init__
FilterSet(id, attrs, ign) ==
    [BaseFilter EXCEPT !.cls = "Set", !.id = id, !.attrs = attrs,
                       !.filters = find_filters(attrs), !.ignore_failure = ign]

\* ---------------------------------------------------------------- context
\* The context a handler name is resolved against: None, or a Filter Set.
NoContext == [isnone |-> TRUE, attrs |-> <<>>]
SetContext(S) == [isnone |-> FALSE, attrs |-> S.attrs]
HasAttr(c, name) == ~c.isnone /\ \E i \in 1..Len(c.attrs) : c.attrs[i].name = name
AttrKind(c, name) == (c.attrs[CHOOSE i \in 1..Len(c.attrs) : c.attrs[i].name = name]).kind

\* ---------------------------------------------------------------- coercion
\* whether exceptions.FilterInvalidArgumentException derives from ValueError or
\* AttributeError, the classes CSVFilter.prepare_value catches and wraps
InvalidArgumentIsCaughtByCSV == FALSE

AtomMatches(a, c) ==
    CASE a.cls = "digit" -> IsDigit(c)
      [] a.cls = "alpha" -> c \in Letters
      [] OTHER -> FALSE

\* re.compile(regex).match(s): the pattern has to match at the start of s; the
\* text after the match is not looked at
re_match(regex, s) ==
    Len(s) >= Len(regex) /\ \A i \in 1..Len(regex) : AtomMatches(regex[i], s[i])

\* the match object of a successful match: group(0) and the capture groups
MatchObject(regex, s) ==
    LET idx == SelectSeq([i \in 1..Len(regex) |-> i], LAMBDA i : regex[i].cap # "none")
    IN  MatchV(SubSeq(s, 1, Len(regex)),
               [j \in 1..Len(idx) |->
                   [named |-> regex[idx[j]].cap = "named",
                    name |-> regex[idx[j]].name,
                    text |-> <<s[idx[j]]>>]])

\* str.split(','): the parts between the commas, at least one
RECURSIVE Split(_)
Split(s) ==
    IF \A i \in 1..Len(s) : s[i] # ","
    THEN <<s>>
    ELSE LET i == CHOOSE i \in 1..Len(s) : s[i] = "," /\ \A j \in 1..(i - 1) : s[j] # ","
         IN  <<SubSeq(s, 1, i - 1)>> \o Split(SubSeq(s, i + 1, Len(s)))

\* {k: v if isinstance(v, list) else [v] for k, v in value.items()}
Normalize(d) == [i \in 1..Len(d) |-> [d[i] EXCEPT !.islist = TRUE]]

RECURSIVE prepare_value(_, _), PrepareParts(_, _, _)

\* the comprehension leaving out the parts that fail instead of failing
PrepareParts_skip_failed(inner, parts, done) ==
    IF parts = <<>> THEN Prepared(ListV(done))
    ELSE LET p == prepare_value(inner, StrV(Head(parts)))
         IN  PrepareParts(inner, Tail(parts), IF p.k = "ok" THEN Append(done, p.v) ELSE done)

\* [self.inner_filter.prepare_value(val) for val in values]: the first part
\* that fails ends the comprehension
PrepareParts(inner, parts, done) ==
    IF parts = <<>> THEN Prepared(ListV(done))
    ELSE LET p == prepare_value(inner, StrV(Head(parts)))
         IN  IF p.k = "ok" THEN PrepareParts(inner, Tail(parts), Append(done, p.v))
             ELSE p

\* Filter.prepare_value and its overrides in RegexFilter, TypeFilter, CSVFilter
\* and FilterSet
prepare_value(f, value) ==
    CASE f.cls = "Regex" ->
            IF value.t # "str" THEN PrepFatal(Exc("TypeError", "", value))
            ELSE IF ~re_match(f.regex, value.s) THEN PrepInvalid(Exc("no_match", "", value))
            ELSE Prepared(MatchObject(f.regex, value.s))
      [] f.cls = "Type" ->
            IF f.type = "int"
            THEN (IF PyInt(value).ok THEN Prepared(IntV(PyInt(value).n))
                  ELSE PrepInvalid(Exc("not_coercible", "int", value)
                                   \o Exc(PyInt(value).exc, "", value)))
            ELSE Prepared(StrV(PyStr(value)))
      [] f.cls = "CSV" ->
            IF value.t # "str"
            THEN PrepInvalid(Exc("not_csv", "", value) \o Exc("AttributeError", "", value))
            ELSE LET p == PrepareParts(f.inner[1], Split(value.s), <<>>)
                 IN  IF p.k = "invalid" /\ InvalidArgumentIsCaughtByCSV
                     THEN PrepInvalid(Exc("not_csv", "", value) \o p.err)
                     ELSE p
      [] f.cls = "Set" ->
            IF value.t # "dict" THEN PrepInvalid(Exc("not_dict", "", value))
            ELSE Prepared(DictV(Normalize(value.d)))
      [] OTHER -> Prepared(value)

\* ---------------------------------------------------------------- handlers
\* MethodFilter.get_handler: [k, found, h, err]; found = FALSE is "return None"
get_handler(f, context) ==
    IF f.method.t = "str"
    THEN IF ~HasAttr(context, f.method.name)
         THEN [k |-> "fatal", found |-> FALSE, h |-> "", err |-> Exc("AttributeError", f.method.name, NoneV)]
         ELSE IF AttrKind(context, f.method.name) = "falsy"
         THEN [k |-> "fatal", found |-> FALSE, h |-> "", err |-> Exc("AssertionError", f.method.name, NoneV)]
         ELSE IF AttrKind(context, f.method.name) = "noncallable"
         THEN [k |-> "fatal", found |-> FALSE, h |-> "", err |-> Exc("AssertionError", f.method.name, NoneV)]
         ELSE [k |-> "ok", found |-> TRUE, h |-> f.method.name, err |-> <<>>]
    ELSE IF f.method.t = "other"
    THEN [k |-> "invalid", found |-> FALSE, h |-> "", err |-> Exc("method_type", "", NoneV)]
    ELSE [k |-> "ok", found |-> FALSE, h |-> "", err |-> <<>>]

\* RegexFilter.has_dict_result: self._compiled.groups > 0
has_dict_result(f) == Cardinality({i \in 1..Len(f.regex) : f.regex[i].cap # "none"}) > 0

\* match.groupdict(): the named groups
GroupDict(m) == {[name |-> m.g[i].name, text |-> m.g[i].text] : i \in {j \in 1..Len(m.g) : m.g[j].named}}

\* the handler called: the call is appended to the query; a "badret" handler
\* returns something that is no peewee.Query
Invoke(qs, context, h, pos, kw) ==
    Ok(Called(qs, h, pos, kw), AttrKind(context, h) # "badret", <<>>)

\* MethodFilter.call_handler and RegexFilter.call_handler
call_handler(f, qs, value, context, h) ==
    IF f.cls = "Regex"
    THEN IF has_dict_result(f)
         THEN Invoke(qs, context, h, <<>>, GroupDict(value))
         ELSE Invoke(qs, context, h, <<StrV(value.s)>>, {})
    ELSE Invoke(qs, context, h, <<value>>, {})

\* ---------------------------------------------------------------- filtering
\* value.get(name, []) on a normalized mapping
DictGet(d, name) ==
    IF \E i \in 1..Len(d) : d[i].k = name
    THEN d[CHOOSE i \in 1..Len(d) : d[i].k = name].items
    ELSE <<>>

\* every member, a Filter Set too, given the values under its own name
filter_args_own_name(member, value) == DictGet(value.d, member.name)

\* [value] if isinstance(filter, FilterSet) else value.get(name, [])
filter_args(member, value) ==
    IF member.f.cls = "Set" THEN <<value>> ELSE DictGet(value.d, member.name)

RECURSIVE filter(_, _, _, _), perform_filtering(_, _, _, _), ChoiceLoop(_, _, _, _, _),
          SetLoop(_, _, _, _, _, _)

\* MethodFilter.perform_filtering
MethodPerform(f, qs, value, context) ==
    LET handler == get_handler(f, context)
    IN  IF handler.k = "fatal" THEN Fatal(handler.err, <<>>)
        ELSE IF handler.k = "invalid" THEN Invalid(handler.err, <<>>)
        ELSE IF f.condition # "" THEN Ok(Where(qs, f.condition), TRUE, <<>>)
        ELSE IF handler.found THEN call_handler(f, qs, value, context, handler.h)
        ELSE Invalid(Exc("no_handler_no_condition", "", NoneV), <<>>)

\* the loop preferring a later alternative that passes to an earlier one
ChoiceLoop_last_wins(f, qs, value, context, i) ==
    IF i > Len(f.filters) THEN Invalid(Exc("choice", "", value), <<>>)
    ELSE LET r == filter(f.filters[i], qs, value, context)
             later == ChoiceLoop(f, qs, value, context, i + 1)
         IN  IF later.k # "invalid" THEN later ELSE r

\* ChoiceFilter.perform_filtering: the loop over self.filters from the i-th on
ChoiceLoop(f, qs, value, context, i) ==
    IF i > Len(f.filters) THEN Invalid(Exc("choice", "", value), <<>>)
    ELSE LET r == filter(f.filters[i], qs, value, context)
         IN  IF r.k = "invalid" THEN ChoiceLoop(f, qs, value, context, i + 1) ELSE r

\* FilterSet.perform_filtering: the two loops, from member i and its argument j
\* on, with the query qs and the invocations made so far
SetLoop(S, value, i, j, qs, trace) ==
    IF i > Len(S.filters) THEN Ok(qs, TRUE, trace)
    ELSE LET member == S.filters[i]
             args == filter_args(member, value)
         IN  IF j > Len(args) THEN SetLoop(S, value, i + 1, 1, qs, trace)
             ELSE LET r == filter(member.f, qs, args[j], SetContext(S))
                      made == trace \o <<[set |-> S.id, name |-> member.name, arg |-> args[j]]>>
                                    \o r.trace
                  IN  CASE r.k = "ok" -> SetLoop(S, value, i, j + 1, r.qs, made)
                        [] r.k = "invalid" ->
                              IF ~S.ignore_failure
                              THEN Invalid(Exc("member", member.name, NoneV) \o r.err, made)
                              ELSE SetLoop(S, value, i, j + 1, qs, made)
                        [] OTHER -> Fatal(r.err, made)

perform_filtering(f, qs, value, context) ==
    CASE f.cls = "Choice" -> ChoiceLoop(f, qs, value, context, 1)
      [] f.cls = "Set" -> SetLoop(f, value, 1, 1, qs, <<>>)
      [] OTHER -> MethodPerform(f, qs, value, context)

\* Filter.filter with the failure policy applied to the coercion step only
filter_coercion_only(f, qs, value, context) ==
    LET p == prepare_value(f, value)
    IN  IF p.k = "fatal" THEN Fatal(p.err, <<>>)
        ELSE IF p.k = "invalid"
        THEN (IF f.ignore_failure THEN Ok(qs, TRUE, <<>>) ELSE Invalid(p.err, <<>>))
        ELSE LET r == perform_filtering(f, qs, p.v, context)
             IN  IF r.k = "ok" /\ ~r.isq
                 THEN Fatal(Exc("AssertionError", "not a peewee.Query", NoneV), r.trace)
                 ELSE r

\* Filter.filter
filter(f, qs, value, context) ==
    LET p == prepare_value(f, value)
    IN  IF p.k = "fatal" THEN Fatal(p.err, <<>>)
        ELSE IF p.k = "invalid"
        THEN (IF f.ignore_failure THEN Ok(qs, TRUE, <<>>) ELSE Invalid(p.err, <<>>))
        ELSE LET r == perform_filtering(f, qs, p.v, context)
             IN  CASE r.k = "fatal" -> r
                   [] r.k = "invalid" ->
                         IF f.ignore_failure THEN Ok(qs, TRUE, r.trace) ELSE r
                   [] OTHER ->
                         IF r.isq THEN r
                         ELSE Fatal(Exc("AssertionError", "not a peewee.Query", NoneV), r.trace)

\* ---------------------------------------------------------------- inputs
\* a context object with one attribute of every kind; "missing" is no attribute
TheContext ==
    [isnone |-> FALSE,
     attrs |-> <<OtherAttr("by_val", "method"), OtherAttr("by_bad", "badret"),
                 OtherAttr("plain", "noncallable"), OtherAttr("falsy", "falsy")>>]

Handler(name) == [t |-> "str", name |-> name]
Methods == {NoMethod, [t |-> "other", name |-> ""]}
             \cup {Handler(n) : n \in {"by_val", "by_bad", "plain", "falsy", "missing"}}
Conditions == {"", "cond"}

Queries == {<<>>, Where(<<>>, "base")}

\* patterns: up to n atoms, the named groups named after their position
GroupName(i) == CASE i = 1 -> "g1" [] i = 2 -> "g2" [] i = 3 -> "g3" [] OTHER -> "g4"
AtomShapes == {"digit", "alpha"} \X {"none", "unnamed", "named"}
PatternOf(shape) ==
    [i \in 1..Len(shape) |-> [cls |-> shape[i][1], cap |-> shape[i][2],
                              name |-> IF shape[i][2] = "named" THEN GroupName(i) ELSE ""]]
Patterns(n) == {PatternOf(shape) : shape \in UNION {[1..k -> AtomShapes] : k \in 0..n}}

NoRequest == [has_page |-> FALSE, page |-> NoneV, has_limit |-> FALSE, limit |-> NoneV]

\* ---------------------------------------------------------------- leaf filters
\* Filter.filter called on a predicate, type, pattern or list filter
LeafFilters ==
    {MethodFilter(m, c, ign) : m \in Methods, c \in Conditions, ign \in BOOLEAN}
    \cup {TypeFilter(t, m, c, ign) :
            t \in {"int", "str"}, m \in Methods, c \in Conditions, ign \in BOOLEAN}
    \cup {RegexFilter(<<[cls |-> "digit", cap |-> "none", name |-> ""]>>, m, c, ign) :
            m \in Methods, c \in Conditions, ign \in BOOLEAN}
    \cup {CSVFilter(inner, m, c, ign) :
            inner \in {<<>>, <<TypeFilter("int", NoMethod, "", FALSE)>>},
            m \in Methods, c \in Conditions, ign \in BOOLEAN}

LeafValues == {NoneV} \cup {StrV(s) : s \in StringsOver({"1", "a", ","}, MaxLen)}

InitLeaf ==
    /\ flt \in LeafFilters
    /\ raw \in LeafValues
    /\ ctx \in {NoContext, TheContext}
    /\ q0 \in Queries
    /\ out = Ok(<<>>, TRUE, <<>>)
    /\ req = NoRequest
    /\ pc = "ready"

\* the call filter.filter(q0, raw, ctx)
CallFilter ==
    /\ pc = "ready"
    /\ out' = filter(flt, q0, raw, ctx)
    /\ pc' = "done"
    /\ UNCHANGED <<flt, raw, ctx, q0, req>>

NextFilter == CallFilter

SpecLeaf == InitLeaf /\ [][NextFilter]_vars

\* ---------------------------------------------------------------- C1
\* what the two steps of flt.filter(q0, raw, ctx) do, taken one at a time
Coerced == prepare_value(flt, raw)
Applied == perform_filtering(flt, q0, Coerced.v, ctx)
StepsRaiseInvalid == Coerced.k = "invalid" \/ (Coerced.k = "ok" /\ Applied.k = "invalid")
StepsError == IF Coerced.k = "invalid" THEN Coerced.err ELSE Applied.err

\* C1: when the coercion step or the application step raises InvalidArgument,
\* a filter with ignore_failure returns exactly the input queryable and does not
\* raise; without ignore_failure that same InvalidArgument reaches the caller.
C1_IgnoreFailureContainment ==
    (pc = "done" /\ StepsRaiseInvalid) =>
        IF flt.ignore_failure
        THEN out.k = "ok" /\ out.qs = q0
        ELSE out.k = "invalid" /\ out.err = StepsError

\* an ignoring filter whose application step (not its coercion) failed, on a
\* query that already holds a transformation
C1_Witness ==
    /\ pc = "done" /\ flt.ignore_failure
    /\ Coerced.k = "ok" /\ Applied.k = "invalid"
    /\ q0 # <<>> /\ out.k = "ok" /\ out.qs = q0

\* ---------------------------------------------------------------- C5
\* the application step of a predicate filter runs into a configuration failure
HandlerMissing == flt.method.t = "str" /\ ~HasAttr(ctx, flt.method.name)
HandlerNotInvokable ==
    /\ flt.method.t = "str" /\ HasAttr(ctx, flt.method.name)
    /\ AttrKind(ctx, flt.method.name) \in {"noncallable", "falsy"}
HandlerUnsupportedType == flt.method.t = "other"
ReturnsNonQueryable ==
    /\ flt.method.t = "str" /\ HasAttr(ctx, flt.method.name)
    /\ AttrKind(ctx, flt.method.name) = "badret" /\ flt.condition = ""
ConfigurationFailure ==
    /\ flt.cls \in {"Method", "Type", "Regex", "CSV"}
    /\ Coerced.k = "ok"
    /\ HandlerMissing \/ HandlerNotInvokable \/ HandlerUnsupportedType \/ ReturnsNonQueryable

\* C5: a missing, non-invokable or unsupported handler and a non-queryable
\* result are never swallowed by ignore_failure: the call ends in a fatal error
\* that is no InvalidArgument.
C5_ConfigurationFailureIsFatal ==
    (pc = "done" /\ flt.ignore_failure /\ ConfigurationFailure) => out.k = "fatal"

\* ---------------------------------------------------------------- C10
\* C10: with a fixed condition configured the application step returns the
\* queryable transformed by the condition, whatever the handler configuration.
C10_ConditionNeedsNoHandler ==
    (pc = "done" /\ flt.cls \in {"Method", "Type", "Regex", "CSV"}
        /\ flt.condition # "" /\ Coerced.k = "ok")
        => (out.k = "ok" /\ out.qs = Where(q0, flt.condition))

\* ---------------------------------------------------------------- pattern filters
RegexFilters ==
    {RegexFilter(regex, Handler("by_val"), c, ign) :
        regex \in Patterns(MaxPat), c \in Conditions, ign \in BOOLEAN}

InitRegex ==
    /\ flt \in RegexFilters
    /\ raw \in {StrV(s) : s \in StringsOver({"1", "a"}, MaxLen)}
    /\ ctx = TheContext
    /\ q0 \in Queries
    /\ out = Ok(<<>>, TRUE, <<>>)
    /\ req = NoRequest
    /\ pc = "ready"

SpecRegex == InitRegex /\ [][NextFilter]_vars

\* the last transformation of the returned query
LastOp == out.qs[Len(out.qs)]

NamedAtoms == {i \in 1..Len(flt.regex) : flt.regex[i].cap = "named"}
NamedGroups == {[name |-> flt.regex[i].name, text |-> <<raw.s[i]>>] : i \in NamedAtoms}
WholeMatch == SubSeq(raw.s, 1, Len(flt.regex))

\* C6: on a match the handler is called with exactly the named groups as
\* keywords when the pattern has named groups, and with the whole matched text
\* as its one positional value when it has none (unnamed groups or no groups).
C6_HandlerCallShape ==
    (pc = "done" /\ flt.cls = "Regex" /\ flt.condition = "" /\ Coerced.k = "ok") =>
        /\ out.k = "ok" /\ Len(out.qs) = Len(q0) + 1 /\ LastOp.op = "call"
        /\ IF NamedAtoms # {}
           THEN LastOp.pos = <<>> /\ LastOp.kw = NamedGroups
           ELSE LastOp.pos = <<StrV(WholeMatch)>> /\ LastOp.kw = {}

\* the pattern matches all of the raw string
FullMatch ==
    /\ raw.t = "str" /\ Len(raw.s) = Len(flt.regex)
    /\ \A i \in 1..Len(flt.regex) : AtomMatches(flt.regex[i], raw.s[i])

\* C7: pattern coercion succeeds only when the pattern matches the full raw
\* string; otherwise it fails with InvalidArgument and no handler is invoked.
C7_FullMatchOnly ==
    (pc = "done" /\ flt.cls = "Regex") =>
        /\ Coerced.k = "ok" => FullMatch
        /\ ~FullMatch => (Coerced.k = "invalid" /\ (out.k = "ok" => out.qs = q0))

\* ---------------------------------------------------------------- list filters
DigitPattern == <<[cls |-> "digit", cap |-> "none", name |-> ""]>>
InnerFilters ==
    {<<>>, <<MethodFilter(NoMethod, "", FALSE)>>, <<RegexFilter(DigitPattern, NoMethod, "", FALSE)>>,
     <<CSVFilter(<<>>, NoMethod, "", FALSE)>>, <<FilterSet("inner", <<>>, FALSE)>>}
    \cup {<<TypeFilter(t, NoMethod, "", ign)>> : t \in {"int", "str"}, ign \in BOOLEAN}

CSVFilters ==
    {CSVFilter(inner, m, c, ign) :
        inner \in InnerFilters, m \in {NoMethod, Handler("by_val")},
        c \in Conditions, ign \in BOOLEAN}

InitCSV ==
    /\ flt \in CSVFilters
    /\ raw \in {NoneV} \cup {StrV(s) : s \in StringsOver({"1", "a", ","}, MaxCsvLen)}
    /\ ctx = TheContext
    /\ q0 \in Queries
    /\ out = Ok(<<>>, TRUE, <<>>)
    /\ req = NoRequest
    /\ pc = "ready"

SpecCSV == InitCSV /\ [][NextFilter]_vars

\* the comma-separated parts and what the inner filter makes of each
Parts == Split(raw.s)
PartCoercion(i) == prepare_value(flt.inner[1], StrV(Parts[i]))
SomePartFails == raw.t # "str" \/ \E i \in 1..Len(Parts) : PartCoercion(i).k # "ok"
CoercedParts == ListV([i \in 1..Len(Parts) |-> PartCoercion(i).v])

\* C8: when the raw value cannot be split or any part fails the inner
\* coercion, the list filter fails with InvalidArgument (or, ignoring failures,
\* returns the input queryable) and neither handler nor condition is applied;
\* when every part coerces the handler receives all coerced parts in order.
C8_ListAtomicity ==
    (pc = "done" /\ flt.cls = "CSV") =>
        IF SomePartFails
        THEN (IF flt.ignore_failure THEN out.k = "ok" /\ out.qs = q0 ELSE out.k = "invalid")
        ELSE /\ (flt.condition = "" /\ flt.method.t = "str")
                    => (out.k = "ok" /\ out.qs = Called(q0, flt.method.name, <<CoercedParts>>, {}))
             /\ flt.condition # "" => (out.k = "ok" /\ out.qs = Where(q0, flt.condition))

\* a list whose second part fails the inner integer coercion
C8_WitnessFails ==
    /\ pc = "done" /\ flt.cls = "CSV" /\ ~flt.ignore_failure /\ flt.method.t = "str"
    /\ raw.t = "str" /\ Len(Parts) >= 2 /\ PartCoercion(1).k = "ok" /\ PartCoercion(2).k # "ok"
    /\ out.k = "invalid"

\* ---------------------------------------------------------------- choice filters
Alternatives ==
    {TypeFilter("int", Handler("by_val"), "", ign) : ign \in BOOLEAN}
    \cup {TypeFilter("str", Handler("by_val"), "", ign) : ign \in BOOLEAN}
    \cup {RegexFilter(DigitPattern, Handler("by_val"), "", ign) : ign \in BOOLEAN}
    \cup {MethodFilter(NoMethod, "", ign) : ign \in BOOLEAN}
    \cup {TypeFilter("int", Handler("missing"), "", FALSE)}

ChoiceFilters ==
    {ChoiceFilter(fs, ign) :
        fs \in UNION {[1..k -> Alternatives] : k \in 0..MaxAlts}, ign \in BOOLEAN}

InitChoice ==
    /\ flt \in ChoiceFilters
    /\ raw \in {StrV(s) : s \in StringsOver({"1", "a"}, MaxLen)}
    /\ ctx = TheContext
    /\ q0 \in Queries
    /\ out = Ok(<<>>, TRUE, <<>>)
    /\ req = NoRequest
    /\ pc = "ready"

SpecChoice == InitChoice /\ [][NextFilter]_vars

\* alternative i on its own, as configured and with ignore_failure off
Alone(i) == filter(flt.filters[i], q0, raw, ctx)
Strict(i) == filter([flt.filters[i] EXCEPT !.ignore_failure = FALSE], q0, raw, ctx)
Rejects(i) == Strict(i).k = "invalid"
Alts == 1..Len(flt.filters)
First(S) == CHOOSE i \in S : \A j \in S : i <= j
ChoiceFails ==
    IF flt.ignore_failure THEN out.k = "ok" /\ out.qs = q0
    ELSE out.k = "invalid" /\ out.err = Exc("choice", "", raw)

\* C2 as claimed: the result is that of the first alternative that accepts the
\* value, whatever the ignore_failure settings of the alternatives, and the
\* choice fails only if every alternative rejects it.
C2_FirstAccepting ==
    pc = "done" =>
        IF \E i \in Alts : ~Rejects(i)
        THEN out = Alone(First({i \in Alts : ~Rejects(i)}))
        ELSE ChoiceFails

\* C2 amended: the result is that of the first alternative whose filter() does
\* not raise InvalidArgument - one that accepts the value, or one with
\* ignore_failure that rejects it and returns the queryable unchanged - and the
\* choice fails only if every alternative has ignore_failure off and rejects.
C2_FirstNotRaising ==
    pc = "done" =>
        /\ IF \E i \in Alts : Alone(i).k # "invalid"
           THEN out = Alone(First({i \in Alts : Alone(i).k # "invalid"}))
           ELSE ChoiceFails
        /\ (out.k = "invalid" \/ (flt.ignore_failure /\ \A i \in Alts : Alone(i).k = "invalid"))
                => \A i \in Alts : ~flt.filters[i].ignore_failure /\ Rejects(i)

\* the first alternative rejects and raises, the second accepts and is the result
C2_Witness ==
    /\ pc = "done" /\ Len(flt.filters) = 2
    /\ Alone(1).k = "invalid" /\ Alone(2).k = "ok" /\ Alone(2).qs # q0
    /\ Strict(2).k = "ok" /\ out = Alone(2)

\* ---------------------------------------------------------------- filter sets
Active == <<"a", "c", "t", "i", "v", "e">>
Abc == <<"a", "b", "c">>
Twelve == <<"1", "2">>

\* how a member is configured: bare, with a handler, with a condition
LeafConfigs == {<<NoMethod, "">>, <<Handler("by_val"), "">>, <<NoMethod, "cond">>}

InnerSet(ign) ==
    FilterSet("inner",
              <<OtherAttr("by_val", "method"),
                FilterAttr("id", TypeFilter("int", Handler("by_val"), "", FALSE)),
                FilterAttr("a", TypeFilter("str", Handler("by_val"), "", FALSE))>>,
              ign)

\* class Outer(FilterSet): status = StringFilter(..); id = IntegerFilter(..);
\* a private filter, a handler method, a plain attribute and, with nested
\* given, inner = Inner(..)
OuterSet(status, id, id_ign, nested, ign) ==
    FilterSet("outer",
              <<FilterAttr("status", TypeFilter("str", status[1], status[2], FALSE)),
                FilterAttr("id", TypeFilter("int", id[1], id[2], id_ign)),
                FilterAttr("_hidden", TypeFilter("str", Handler("by_val"), "", FALSE)),
                OtherAttr("by_val", "method"),
                OtherAttr("plain", "noncallable")>>
              \o [i \in 1..Len(nested) |-> FilterAttr("inner", nested[i])],
              ign)

OuterSets ==
    {OuterSet(status, id, id_ign, nested, ign) :
        status \in LeafConfigs, id \in {<<NoMethod, "">>, <<Handler("by_val"), "">>},
        id_ign \in BOOLEAN, nested \in {<<>>, <<InnerSet(FALSE)>>, <<InnerSet(TRUE)>>},
        ign \in BOOLEAN}

\* the values a raw mapping gives one name: none (<<>>), a scalar, or a list
Listed(k, vals) ==
    {<<>>} \cup {<<[k |-> k, islist |-> FALSE, items |-> <<v>>]>> : v \in vals}
           \cup {<<[k |-> k, islist |-> TRUE, items |-> l]>> :
                    l \in UNION {[1..n -> vals] : n \in 0..MaxArgs}}

Params ==
    {DictV(s \o i \o a \o h) :
        s \in Listed("status", {StrV(Active)}),
        i \in Listed("id", {StrV(Abc), StrV(Twelve)}),
        a \in {<<>>, <<[k |-> "a", islist |-> FALSE, items |-> <<StrV(Abc)>>]>>},
        h \in {<<>>, <<[k |-> "_hidden", islist |-> FALSE, items |-> <<StrV(Abc)>>]>>}}

InitSet ==
    /\ flt \in OuterSets
    /\ raw \in Params \cup {NoneV, StrV(Abc)}
    /\ ctx = NoContext
    /\ q0 \in Queries
    /\ out = Ok(<<>>, TRUE, <<>>)
    /\ req = NoRequest
    /\ pc = "ready"

SpecSet == InitSet /\ [][NextFilter]_vars

\* ---------------------------------------------------------------- C3
Attr(S, name) == S.attrs[CHOOSE i \in 1..Len(S.attrs) : S.attrs[i].name = name]
HasMember(S, name) == \E i \in 1..Len(S.attrs) : S.attrs[i].name = name
Bare(f) == f.method.t = "none" /\ f.condition = ""

\* raw params {"status": ["active"], "id": ["abc"]} given to a set of the two
\* members status and id that does not ignore failures
Scenario ==
    /\ pc = "done" /\ flt.cls = "Set" /\ ~flt.ignore_failure /\ ~HasMember(flt, "inner")
    /\ raw = DictV(<<[k |-> "status", islist |-> TRUE, items |-> <<StrV(Active)>>],
                     [k |-> "id", islist |-> TRUE, items |-> <<StrV(Abc)>>]>>)

RaisesNaming(name) == out.k = "invalid" /\ out.err[1].kind = "member" /\ out.err[1].name = name
ErrorMentions(v) == \E i \in 1..Len(out.err) : out.err[i].val = v

StatusApplied ==
    LET f == Attr(flt, "status").f
    IN  IF f.condition # "" THEN Where(q0, f.condition)
        ELSE Called(q0, f.method.name, <<StrV(Active)>>, {})

\* C3 as claimed, for status = StringFilter() and id = IntegerFilter(): with
\* ignore_failure off on id the call raises InvalidArgument naming id and
\* "abc"; with it on the call succeeds, the status filter is applied and the id
\* step leaves the queryable unchanged.
C3_ScenarioAsClaimed ==
    (Scenario /\ Bare(Attr(flt, "status").f) /\ Bare(Attr(flt, "id").f)) =>
        IF ~Attr(flt, "id").f.ignore_failure
        THEN RaisesNaming("id") /\ ErrorMentions(StrV(Abc))
        ELSE out.k = "ok"

\* C3 amended: with ignore_failure off on id the call raises InvalidArgument
\* naming id and "abc"; with it on the id step leaves the queryable unchanged,
\* and the call succeeds with exactly the status filter applied when the status
\* filter has a handler or a condition, while a bare StringFilter() (neither)
\* makes the call raise InvalidArgument naming status.
C3_ScenarioAmended ==
    Scenario =>
        IF ~Attr(flt, "id").f.ignore_failure
        THEN RaisesNaming("id") /\ ErrorMentions(StrV(Abc))
        ELSE IF Bare(Attr(flt, "status").f)
        THEN RaisesNaming("status") /\ out.err[2].kind = "no_handler_no_condition"
        ELSE out.k = "ok" /\ out.qs = StatusApplied

\* both halves happen: id raising, and id ignored with status applied
C3_Witness ==
    /\ Scenario /\ Attr(flt, "id").f.ignore_failure /\ ~Bare(Attr(flt, "status").f)
    /\ out.k = "ok" /\ out.qs = StatusApplied /\ q0 # <<>>

\* ---------------------------------------------------------------- C4
IsPrefix(a, b) == Len(a) <= Len(b) /\ a = SubSeq(b, 1, Len(a))

\* the arguments member name of set id was invoked with, in order
InvokedWith(id, name) ==
    LET calls == SelectSeq(out.trace, LAMBDA e : e.set = id /\ e.name = name)
    IN  [i \in 1..Len(calls) |-> calls[i].arg]

\* the values the raw mapping lists under a name
RawItems(name) ==
    IF \E i \in 1..Len(raw.d) : raw.d[i].k = name
    THEN raw.d[CHOOSE i \in 1..Len(raw.d) : raw.d[i].k = name].items
    ELSE <<>>

\* what the claim has a declared filter attribute invoked with
Due(a) ==
    IF IsPrivate(a.name) THEN <<>>
    ELSE IF a.f.cls = "Set" THEN <<DictV(Normalize(raw.d))>>
    ELSE RawItems(a.name)

FilterAttrs(S) == {i \in 1..Len(S.attrs) : S.attrs[i].isfilter}

\* the loop of set S ran to its end
RanThrough(S) ==
    /\ out.k = "ok"
    /\ S.id = "inner" => (S.ignore_failure \/ ~flt.ignore_failure)

MembersRouted(S) ==
    \A i \in FilterAttrs(S) :
        /\ IsPrefix(InvokedWith(S.id, S.attrs[i].name), Due(S.attrs[i]))
        /\ RanThrough(S) => InvokedWith(S.id, S.attrs[i].name) = Due(S.attrs[i])

PageValues ==
    {NoneV, IntV(2)} \cup {StrV(s) : s \in StringsOver({"1", "a"}, 1)}
LimitValues ==
    {NoneV, IntV(55), IntV(200), IntV(0 - 5)}
    \cup {StrV(s) : s \in StringsOver({"0", "1", "9", "a", "-"}, MaxDigits)}

Requests ==
    {[has_page |-> FALSE, page |-> NoneV, has_limit |-> FALSE, limit |-> NoneV]}
    \cup {[has_page |-> TRUE, page |-> p, has_limit |-> FALSE, limit |-> NoneV] : p \in PageValues}
    \cup {[has_page |-> FALSE, page |-> NoneV, has_limit |-> TRUE, limit |-> l] : l \in LimitValues}
    \cup {[has_page |-> TRUE, page |-> p, has_limit |-> TRUE, limit |-> l] :
            p \in PageValues, l \in LimitValues}

InitPage ==
    /\ flt = BaseFilter
    /\ raw = NoneV
    /\ ctx = NoContext
    /\ q0 = <<>>
    /\ out = [k |-> "ok", page |-> 0, limit |-> 0]
    /\ req \in Requests
    /\ pc = "ready"

\* the call self.get_page_and_limit(request)
CallGetPageAndLimit ==
    /\ pc = "ready"
    /\ out' = get_page_and_limit(req)
    /\ pc' = "done"
    /\ UNCHANGED <<flt, raw, ctx, q0, req>>

NextPage == CallGetPageAndLimit

SpecPage == InitPage /\ [][NextPage]_vars

\* a parameter that is given and is no number
IsNumber(v) == v.t = "int" \/ (v.t = "str" /\ IntParsable(v.s))
BadParameter ==
    (req.has_page /\ ~IsNumber(req.page)) \/ (req.has_limit /\ ~IsNumber(req.limit))
Requested == PyInt(req.limit).n

\* C9: get_page_and_limit raises InvalidUsage when page or limit is no number;
\* otherwise the limit is the default when none is given, the requested limit
\* when it does not exceed PAGE_ITEMS_LIMIT_MAX and PAGE_ITEMS_LIMIT_MAX when
\* it does, so it never exceeds PAGE_ITEMS_LIMIT_MAX.
C9_PageAndLimit ==
    pc = "done" =>
        IF BadParameter THEN out.k = "InvalidUsage"
        ELSE /\ out.k = "ok"
             /\ out.limit <= PAGE_ITEMS_LIMIT_MAX
             /\ ~req.has_limit => out.limit = PAGE_ITEMS_LIMIT_DEFAULT
             /\ (req.has_limit /\ Requested <= PAGE_ITEMS_LIMIT_MAX) => out.limit = Requested
             /\ (req.has_limit /\ Requested > PAGE_ITEMS_LIMIT_MAX)
                    => out.limit = PAGE_ITEMS_LIMIT_MAX

\* a requested limit above the maximum, given as text, is cut to the maximum
C9_Witness ==
    /\ pc = "done" /\ req.has_limit /\ req.limit.t = "str" /\ ~BadParameter
    /\ Requested > PAGE_ITEMS_LIMIT_MAX /\ out.k = "ok" /\ out.limit = PAGE_ITEMS_LIMIT_MAX

\* ---------------------------------------------------------------- every kind of filter
\* Filter.filter called on filters of every class
SomeChoiceFilters ==
    {ChoiceFilter(fs, ign) :
        fs \in UNION {[1..k -> {TypeFilter("int", Handler("by_val"), "", FALSE),
                                RegexFilter(DigitPattern, Handler("by_val"), "", TRUE),
                                MethodFilter(NoMethod, "", FALSE)}] : k \in 0..MaxAlts},
        ign \in BOOLEAN}

SomeParams ==
    {DictV(<<>>),
     DictV(<<[k |-> "id", islist |-> FALSE, items |-> <<StrV(Twelve)>>]>>),
     DictV(<<[k |-> "id", islist |-> TRUE, items |-> <<StrV(Twelve), StrV(Abc)>>]>>),
     DictV(<<[k |-> "status", islist |-> TRUE, items |-> <<StrV(Active)>>],
             [k |-> "id", islist |-> TRUE, items |-> <<StrV(Abc)>>]>>)}

InitAny ==
    /\ flt \in LeafFilters \cup SomeChoiceFilters \cup OuterSets
    /\ raw \in {NoneV} \cup {StrV(s) : s \in StringsOver({"1", "a"}, MaxLen)} \cup SomeParams
    /\ ctx = TheContext
    /\ q0 \in Queries
    /\ out = Ok(<<>>, TRUE, <<>>)
    /\ req = NoRequest
    /\ pc = "ready"

SpecAny == InitAny /\ [][NextFilter]_vars

====
